---- MODULE Spec2Model ----
(***************************************************************************)
(* Camera navigation / warp-transition engine of the 3D planet system      *)
(* (src/src/camera.rs) and the frame loop that drives it                   *)
(* (src/src/main.rs).                                                      *)
(*                                                                         *)
(* Number representation                                                   *)
(*   - The warp progress and the portal radius are f32 values that the     *)
(*     code compares with 1.0; they are modelled EXACTLY, as integers in   *)
(*     units of 2^-30, with IEEE round-to-nearest-even to a 24 bit         *)
(*     significand after every addition and subtraction.                   *)
(*   - Positions are fixed point, Q units per world unit; angles and       *)
(*     unit-vector components are fixed point, T units per 1.0.            *)
(***************************************************************************)
EXTENDS Integers, Sequences, FiniteSets, TLC

\* ------------------------------------------------------------------------
\* Fixed-point scales
\* ------------------------------------------------------------------------
\* position units per world unit
Q == 100
\* angle / direction-cosine units per 1.0
T == 10000
\* std::f32::consts::PI in T units
PI == 31416
TwoPI == 2 * PI
HalfPI == PI \div 2

Abs(a) == IF a < 0 THEN -a ELSE a
Sgn(a) == IF a < 0 THEN -1 ELSE IF a > 0 THEN 1 ELSE 0
Min(a, b) == IF a < b THEN a ELSE b
Max(a, b) == IF a > b THEN a ELSE b

\* a / b rounded to the nearest integer (b > 0), symmetric about zero
RDiv(a, b) == Sgn(a) * ((Abs(a) + b \div 2) \div b)

\* f32::clamp
Clamp(v, lo, hi) == IF v < lo THEN lo ELSE IF v > hi THEN hi ELSE v

\* f32 remainder (a % m): truncated, the sign follows the dividend
FMod(a, m) == Sgn(a) * (Abs(a) % m)

\* ------------------------------------------------------------------------
\* Exact f32 arithmetic on values n * 2^-30 (0 <= n < 2^31)
\* ------------------------------------------------------------------------
\* 1.0f32
F32One == 1073741824

RECURSIVE F32Ulp(_)
\* spacing of the f32 values around n * 2^-30, in units of 2^-30
F32Ulp(n) == IF n < 16777216 THEN 1 ELSE 2 * F32Ulp(n \div 2)

\* round-to-nearest, ties-to-even, to a 24 bit significand
F32Round(n) ==
  LET u == F32Ulp(n)
      q == n \div u
      r == n % u
  IN  IF 2 * r > u \/ (2 * r = u /\ q % 2 = 1) THEN (q + 1) * u ELSE q * u

\* a + b in f32 (a, b >= 0)
F32Add(a, b) == F32Round(a + b)
\* a - b in f32
F32Sub(a, b) == Sgn(a - b) * F32Round(Abs(a - b))

\* ------------------------------------------------------------------------
\* Fixed-point elementary functions (angles and results in T units)
\* ------------------------------------------------------------------------
RECURSIVE SqrtIter(_, _)
SqrtIter(n, x) ==
  LET y == (x + n \div x) \div 2
  IN  IF y >= x THEN x ELSE SqrtIter(n, y)

\* floor(sqrt(n))
ISqrtFloor(n) == IF n <= 0 THEN 0 ELSE SqrtIter(n, Min(n, 46340))

\* f32::sqrt, rounded to the nearest unit
ISqrt(n) ==
  LET r == ISqrtFloor(n)
  IN  IF n - r * r > r THEN r + 1 ELSE r

\* cos on [0, HalfPI] by its Taylor polynomial up to x^10
CosQ1(x) ==
  LET x2 == RDiv(x * x, T)
      t10 == RDiv(x2, 90)
      t8 == RDiv(x2 * (T - t10), 56 * T)
      t6 == RDiv(x2 * (T - t8), 30 * T)
      t4 == RDiv(x2 * (T - t6), 12 * T)
      t2 == RDiv(x2 * (T - t4), 2 * T)
  IN  T - t2

\* f32::cos
Cos(a) ==
  LET b == Abs(a) % TwoPI
      c == IF b > PI THEN TwoPI - b ELSE b
  IN  IF c <= HalfPI THEN CosQ1(c) ELSE -CosQ1(PI - c)

\* f32::sin
Sin(a) == Cos(a - HalfPI)

\* atan on [0, tan(pi/8)] (z in T units) by its Taylor polynomial up to z^9
AtanSmall(z) ==
  LET z2 == RDiv(z * z, T)
      p9 == RDiv(T, 9)
      p7 == RDiv(T, 7) - RDiv(z2 * p9, T)
      p5 == RDiv(T, 5) - RDiv(z2 * p7, T)
      p3 == RDiv(T, 3) - RDiv(z2 * p5, T)
      p1 == T - RDiv(z2 * p3, T)
  IN  RDiv(z * p1, T)

\* atan(n / d) for 0 <= n <= d, d > 0
AtanRatio(n, d) ==
  IF 5 * n > 2 * d
    THEN PI \div 4 - AtanSmall(RDiv((d - n) * T, d + n))
    ELSE AtanSmall(RDiv(n * T, d))

\* atan(n / d) for n, d >= 0, not both zero: in [0, HalfPI]
AtanQ1(n, d) ==
  IF n <= d THEN AtanRatio(n, d) ELSE HalfPI - AtanRatio(d, n)

\* the angle of (x, y), given the angle a of (|x|, |y|)
Atan2Quadrant(y, x, a) ==
  IF y < 0 THEN -(IF x < 0 THEN PI - a ELSE a)
  ELSE IF x < 0 THEN PI - a ELSE a

\* f32::atan2(y, x); atan2(0, 0) = 0
Atan2(y, x) ==
  IF x = 0 /\ y = 0 THEN 0
  ELSE Atan2Quadrant(y, x, AtanQ1(Abs(y), Abs(x)))

\* ------------------------------------------------------------------------
\* Vec3
\* ------------------------------------------------------------------------
Vec3(x, y, z) == <<x, y, z>>
VAdd(a, b) == <<a[1] + b[1], a[2] + b[2], a[3] + b[3]>>
VSub(a, b) == <<a[1] - b[1], a[2] - b[2], a[3] - b[3]>>
Dot(a, b) == a[1] * b[1] + a[2] * b[2] + a[3] * b[3]
\* v * s / d, each component rounded
VScale(v, s, d) == <<RDiv(v[1] * s, d), RDiv(v[2] * s, d), RDiv(v[3] * s, d)>>
\* a x b, divided by d
Cross(a, b, d) ==
  <<RDiv(a[2] * b[3] - a[3] * b[2], d),
    RDiv(a[3] * b[1] - a[1] * b[3], d),
    RDiv(a[1] * b[2] - a[2] * b[1], d)>>
\* |v|^2 and |v| (in the units of v)
Norm2(v) == Dot(v, v)
magnitude(v) == ISqrt(Norm2(v))
\* nalgebra_glm::distance
distance(a, b) == magnitude(VSub(a, b))
ZeroVec == <<0, 0, 0>>


\* the value every component of a NaN vector carries (outside the position range)
NaNVec == <<-(2^30), -(2^30), -(2^30)>>
IsNaN(v) == v = NaNVec

\* largest absolute component
MaxComp(v) == Max(Abs(v[1]), Max(Abs(v[2]), Abs(v[3])))

\* Vec3::normalize, result in T units; 0/0 = NaN for the zero vector.
\* Short vectors are scaled up first so that the rounding of the norm does
\* not dominate the result.
normalize(v) ==
  IF IsNaN(v) \/ v = ZeroVec THEN NaNVec
  ELSE LET m == MaxComp(v)
           s == IF m <= 1500 THEN 16 ELSE IF m <= 6000 THEN 4
                ELSE IF m <= 12000 THEN 2 ELSE 1
           w == <<v[1] * s, v[2] * s, v[3] * s>>
       IN  VScale(w, T, magnitude(w))

\* nalgebra_glm::lerp(x, y, a) = x * (1 - a) + y * a, a in T units
lerp(x, y, a) ==
  IF IsNaN(x) \/ IsNaN(y) THEN NaNVec
  ELSE <<RDiv(x[1] * (T - a) + y[1] * a, T),
         RDiv(x[2] * (T - a) + y[2] * a, T),
         RDiv(x[3] * (T - a) + y[3] * a, T)>>

\* nalgebra_glm::lerp(x, y, a) before the rounding to position units: T times
\* the interpolated point
lerp_unrounded(x, y, a) ==
  <<x[1] * (T - a) + y[1] * a,
    x[2] * (T - a) + y[2] * a,
    x[3] * (T - a) + y[3] * a>>

\* Rodrigues' formula: v rotated about the unit axis k, given the cosine c
\* and the sine s of the angle, the cross product kxv = k x v and
\* a = (k . v) (1 - c); v in Q units
rotate_about(v, k, c, s, kxv, a) ==
  <<RDiv(v[1] * c + kxv[1] * s + k[1] * a, T),
    RDiv(v[2] * c + kxv[2] * s + k[2] * a, T),
    RDiv(v[3] * c + kxv[3] * s + k[3] * a, T)>>

\* v rotated by the angle of cosine c and sine s about the unit axis k
rotate_unit(v, k, c, s) ==
  IF IsNaN(k) \/ IsNaN(v) THEN NaNVec
  ELSE rotate_about(v, k, c, s, Cross(k, v, T),
                    RDiv(RDiv(Dot(k, v), T) * (T - c), T))

\* nalgebra_glm::rotate_vec3(v, angle, normal): v rotated by angle about the
\* normalized axis
rotate_vec3(v, angle, normal) ==
  rotate_unit(v, normalize(normal), Cos(angle), Sin(angle))

\* ------------------------------------------------------------------------
\* WarpState (camera.rs): a tag and the f32 progress it carries
\* ------------------------------------------------------------------------
WarpNone == [tag |-> "None", progress |-> 0]
PortalOpening(p) == [tag |-> "PortalOpening", progress |-> p]
Overview(p) == [tag |-> "Overview", progress |-> p]
Approaching(p) == [tag |-> "Approaching", progress |-> p]
PortalClosing(p) == [tag |-> "PortalClosing", progress |-> p]

\* the f32 literals added to the progress, in units of 2^-30
\* 0.05f32
StepPortal == 53687092
\* 0.02f32
StepOverview == 21474836
\* 0.015f32
StepApproach == 16106127

\* ------------------------------------------------------------------------
\* Camera (camera.rs)
\* ------------------------------------------------------------------------
min_zoom == 10 * Q
max_zoom == 100 * Q
max_center_distance == 50 * Q

\* Camera::new
new(eye, center, up) ==
  [eye |-> eye, center |-> center, up |-> up,
   has_changed |-> TRUE,
   warping |-> FALSE,
   warp_start_eye |-> eye, warp_start_center |-> center,
   warp_target_eye |-> eye, warp_target_center |-> center,
   warp_state |-> WarpNone,
   portal_radius |-> 0,
   overview_target |-> eye, final_target |-> eye,
   initial_eye |-> eye, initial_center |-> center, initial_up |-> up]

\* one obstacle: the position and scale of a CelestialBody
Body(pos, scale) == [position |-> pos, scale |-> scale]

\* body.scale * 1.2
min_distance(body) == RDiv(body.scale * 12, 10)

\* a check_collision without the padding factor: distance < body.scale
check_collision_no_padding(bodies, new_position) ==
  /\ ~IsNaN(new_position)
  /\ \E i \in 1..Len(bodies) :
        Norm2(VSub(new_position, bodies[i].position))
          < bodies[i].scale * bodies[i].scale

\* Camera::check_collision; "distance < min_distance" is decided on the
\* squares, and every comparison with a NaN distance is false
check_collision(bodies, new_position) ==
  /\ ~IsNaN(new_position)
  /\ \E i \in 1..Len(bodies) :
        Norm2(VSub(new_position, bodies[i].position))
          < min_distance(bodies[i]) * min_distance(bodies[i])

\* the pitch limit PI / 2.0 - 0.1
PitchLimit == HalfPI - T \div 10

\* an orbit that leaves cos(new_pitch) out of the horizontal components
orbit_new_eye_no_pitch_scale(cam, delta_yaw, delta_pitch) ==
  IF IsNaN(cam.eye) \/ IsNaN(cam.center) THEN NaNVec
  ELSE
  LET radius_vector == VSub(cam.eye, cam.center)
      radius == magnitude(radius_vector)
      current_yaw == Atan2(radius_vector[3], radius_vector[1])
      radius_xz == ISqrt(radius_vector[1] * radius_vector[1]
                         + radius_vector[3] * radius_vector[3])
      current_pitch == Atan2(-radius_vector[2], radius_xz)
      new_yaw == FMod(current_yaw + delta_yaw, TwoPI)
      new_pitch == Clamp(current_pitch + delta_pitch, -PitchLimit, PitchLimit)
  IN  VAdd(cam.center,
           <<RDiv(radius * Cos(new_yaw), T),
             -RDiv(radius * Sin(new_pitch), T),
             RDiv(radius * Sin(new_yaw), T)>>)

\* Camera::orbit, the point at the given radius, yaw and pitch from center
orbit_eye_at(center, radius, new_yaw, new_pitch) ==
  VAdd(center,
       <<RDiv(radius * RDiv(Cos(new_yaw) * Cos(new_pitch), T), T),
         -RDiv(radius * Sin(new_pitch), T),
         RDiv(radius * RDiv(Sin(new_yaw) * Cos(new_pitch), T), T)>>)

\* the candidate eye of Camera::orbit
orbit_new_eye(cam, delta_yaw, delta_pitch) ==
  IF IsNaN(cam.eye) \/ IsNaN(cam.center) THEN NaNVec
  ELSE
  LET radius_vector == VSub(cam.eye, cam.center)
      radius == magnitude(radius_vector)
      current_yaw == Atan2(radius_vector[3], radius_vector[1])
      radius_xz == ISqrt(radius_vector[1] * radius_vector[1]
                         + radius_vector[3] * radius_vector[3])
      current_pitch == Atan2(-radius_vector[2], radius_xz)
      new_yaw == FMod(current_yaw + delta_yaw, TwoPI)
      new_pitch == Clamp(current_pitch + delta_pitch, -PitchLimit, PitchLimit)
  IN  orbit_eye_at(cam.center, radius, new_yaw, new_pitch)

\* a commit of the candidate eye that makes no collision check
commit_eye_unchecked(cam, bodies, new_eye) ==
  [cam EXCEPT !.eye = new_eye, !.has_changed = TRUE]

\* Camera::orbit and Camera::zoom, "only update if no collision"
commit_eye(cam, bodies, new_eye) ==
  IF ~check_collision(bodies, new_eye)
    THEN [cam EXCEPT !.eye = new_eye, !.has_changed = TRUE]
    ELSE cam

\* Camera::orbit
orbit(cam, delta_yaw, delta_pitch, bodies) ==
  commit_eye(cam, bodies, orbit_new_eye(cam, delta_yaw, delta_pitch))

\* a zoom that clamps the distance to [0, max_zoom]: the lower limit is lost
zoom_new_distance_from_zero(current_distance, delta) ==
  Clamp(current_distance - delta, 0, max_zoom)

\* the clamped distance of Camera::zoom
zoom_new_distance(current_distance, delta) ==
  Clamp(current_distance - delta, min_zoom, max_zoom)

\* Camera::zoom, the point at new_distance from center against direction
zoom_eye_at(center, direction, new_distance) ==
  IF IsNaN(direction) \/ IsNaN(center) THEN NaNVec
  ELSE VSub(center, VScale(direction, new_distance, T))

\* the candidate eye of Camera::zoom
zoom_new_eye(cam, delta) ==
  LET current_distance == magnitude(VSub(cam.center, cam.eye))
      new_distance == zoom_new_distance(current_distance, delta)
  IN  zoom_eye_at(cam.center, normalize(VSub(cam.center, cam.eye)),
                  new_distance)

\* Camera::zoom
zoom(cam, delta, bodies) ==
  commit_eye(cam, bodies, zoom_new_eye(cam, delta))

\* Camera::move_center, the second rotation: about right = rotated x up
move_center_final_rotated(rotated, angle_y, up) ==
  rotate_vec3(rotated, angle_y,
              IF IsNaN(rotated) THEN NaNVec
              ELSE normalize(Cross(rotated, up, T)))

\* Camera::move_center, the point at radius from eye along dir
move_center_center_at(eye, dir, radius) ==
  IF IsNaN(dir) THEN NaNVec
  ELSE VAdd(eye, VScale(dir, radius, T))

\* the candidate center of Camera::move_center; direction = <<x, y>> in
\* whole units, an angle of 0.05 rad per unit
move_center_new_center(cam, direction) ==
  IF IsNaN(cam.eye) \/ IsNaN(cam.center) THEN NaNVec
  ELSE
  LET radius_vector == VSub(cam.center, cam.eye)
      radius == magnitude(radius_vector)
      angle_x == direction[1] * (T \div 20)
      angle_y == direction[2] * (T \div 20)
      rotated == rotate_vec3(radius_vector, angle_x, Vec3(0, T, 0))
      final_rotated == move_center_final_rotated(rotated, angle_y, cam.up)
  IN  move_center_center_at(cam.eye, normalize(final_rotated), radius)

\* a move_center without the max_center_distance test
within_center_bound_unchecked(new_center) == ~IsNaN(new_center)

\* the bound test of Camera::move_center: new_center.magnitude() <=
\* max_center_distance (false for NaN)
within_center_bound(new_center) ==
  /\ ~IsNaN(new_center)
  /\ Norm2(new_center) <= max_center_distance * max_center_distance

\* a move_center that tests the new center, not the eye, for collisions
move_center_checks_center(cam, direction, bodies) ==
  LET new_center == move_center_new_center(cam, direction)
  IN  IF within_center_bound(new_center)
         /\ ~check_collision(bodies, new_center)
        THEN [cam EXCEPT !.center = new_center, !.has_changed = TRUE]
        ELSE cam

\* Camera::move_center, "only update if no collision and within bounds"
commit_center(cam, bodies, new_center) ==
  IF within_center_bound(new_center) /\ ~check_collision(bodies, cam.eye)
    THEN [cam EXCEPT !.center = new_center, !.has_changed = TRUE]
    ELSE cam

\* Camera::move_center
move_center(cam, direction, bodies) ==
  commit_center(cam, bodies, move_center_new_center(cam, direction))

\* Camera::check_if_changed: the camera after the call, and the value returned
check_if_changed(cam) == [cam EXCEPT !.has_changed = FALSE]
check_if_changed_ret(cam) == cam.has_changed


\* the cosine easing t = (1.0 - (progress * PI).cos()) * 0.5, in T units;
\* progress in units of 2^-30
ease(progress) ==
  LET angle == RDiv(RDiv(progress, 65536) * PI, 16384)
  IN  RDiv(T - Cos(angle), 2)

\* a start_warp without the "only if not already warping" test
start_warp_unguarded(cam, target_position) ==
  LET overview_pos == VAdd(target_position, Vec3(0, 25 * Q, 0))
  IN  [cam EXCEPT !.warping = TRUE,
                  !.warp_start_eye = cam.eye,
                  !.warp_start_center = cam.center,
                  !.warp_target_eye = overview_pos,
                  !.warp_target_center = target_position,
                  !.warp_state = PortalOpening(0),
                  !.portal_radius = 0,
                  !.overview_target = overview_pos,
                  !.final_target = VAdd(target_position,
                                        Vec3(8 * Q, 12 * Q, 8 * Q))]

\* Camera::start_warp
start_warp(cam, target_position) ==
  IF cam.warp_state = WarpNone
    THEN LET overview_height == 25 * Q
             overview_pos == VAdd(target_position, Vec3(0, overview_height, 0))
             final_height == 12 * Q
             final_offset == Vec3(8 * Q, final_height, 8 * Q)
         IN  [cam EXCEPT !.warping = TRUE,
                         !.warp_start_eye = cam.eye,
                         !.warp_start_center = cam.center,
                         !.warp_target_eye = overview_pos,
                         !.warp_target_center = target_position,
                         !.warp_state = PortalOpening(0),
                         !.portal_radius = 0,
                         !.overview_target = overview_pos,
                         !.final_target = VAdd(target_position, final_offset)]
    ELSE cam

\* a bird_eye_view that starts the transition without setting the warping
\* flag
bird_eye_view_without_flag(cam) ==
  IF cam.warp_state = WarpNone
    THEN [cam EXCEPT !.warp_start_eye = cam.eye,
                     !.warp_start_center = cam.center,
                     !.warp_target_eye = Vec3(-40 * Q, 80 * Q, 40 * Q),
                     !.warp_target_center = Vec3(0, 0, 0),
                     !.warp_state = PortalOpening(0),
                     !.portal_radius = 0,
                     !.overview_target = Vec3(-40 * Q, 80 * Q, 40 * Q),
                     !.final_target = Vec3(-40 * Q, 80 * Q, 40 * Q)]
    ELSE cam

\* Camera::bird_eye_view
bird_eye_view(cam) ==
  IF cam.warp_state = WarpNone
    THEN LET target_position == Vec3(0, 0, 0)
             overview_height == 80 * Q
             overview_pos == Vec3(-40 * Q, overview_height, 40 * Q)
         IN  [cam EXCEPT !.warping = TRUE,
                         !.warp_start_eye = cam.eye,
                         !.warp_start_center = cam.center,
                         !.warp_target_eye = overview_pos,
                         !.warp_target_center = target_position,
                         !.warp_state = PortalOpening(0),
                         !.portal_radius = 0,
                         !.overview_target = overview_pos,
                         !.final_target = overview_pos]
    ELSE cam

\* Camera::update_warp, the PortalOpening arm
update_PortalOpening(cam) ==
  LET progress == F32Add(cam.warp_state.progress, StepPortal)
  IN  [cam EXCEPT !.portal_radius = progress,
                  !.warp_state = IF progress >= F32One
                                   THEN Overview(0)
                                   ELSE PortalOpening(progress)]

\* an Overview arm that stores the progress and leaves the stage one call
\* late, on the call made with a stored progress of 1.0 or more
update_Overview_late(cam) ==
  LET progress == F32Add(cam.warp_state.progress, StepOverview)
  IN  IF cam.warp_state.progress >= F32One
        THEN [cam EXCEPT !.warp_state = Approaching(0),
                         !.warp_start_eye = cam.eye,
                         !.warp_target_eye = cam.final_target]
        ELSE [cam EXCEPT
                !.warp_state = Overview(progress),
                !.eye = lerp(cam.warp_start_eye, cam.overview_target,
                             ease(Min(progress, F32One))),
                !.center = lerp(cam.warp_start_center,
                                cam.warp_target_center,
                                ease(Min(progress, F32One)))]

\* Camera::update_warp, the Overview arm
update_Overview(cam) ==
  LET progress == F32Add(cam.warp_state.progress, StepOverview)
  IN  IF progress >= F32One
        THEN [cam EXCEPT !.warp_state = Approaching(0),
                         !.warp_start_eye = cam.eye,
                         !.warp_target_eye = cam.final_target]
        ELSE LET t == ease(progress)
             IN  [cam EXCEPT
                    !.warp_state = Overview(progress),
                    !.eye = lerp(cam.warp_start_eye, cam.overview_target, t),
                    !.center = lerp(cam.warp_start_center,
                                    cam.warp_target_center, t)]

\* an Approaching arm that ends the transition without closing the portal
update_Approaching_to_None(cam) ==
  LET progress == F32Add(cam.warp_state.progress, StepApproach)
  IN  IF progress >= F32One
        THEN [cam EXCEPT !.warp_state = WarpNone, !.warping = FALSE]
        ELSE [cam EXCEPT
                !.warp_state = Approaching(progress),
                !.eye = lerp(cam.warp_start_eye, cam.warp_target_eye,
                             ease(progress))]

\* an Approaching arm that eases the center too, as the Overview arm does
update_Approaching_eases_center(cam) ==
  LET progress == F32Add(cam.warp_state.progress, StepApproach)
  IN  IF progress >= F32One
        THEN [cam EXCEPT !.warp_state = PortalClosing(0)]
        ELSE [cam EXCEPT
                !.warp_state = Approaching(progress),
                !.eye = lerp(cam.warp_start_eye, cam.warp_target_eye,
                             ease(progress)),
                !.center = lerp(cam.warp_start_center,
                                cam.warp_target_center, ease(progress))]

\* Camera::update_warp, the Approaching arm
update_Approaching(cam) ==
  LET progress == F32Add(cam.warp_state.progress, StepApproach)
  IN  IF progress >= F32One
        THEN [cam EXCEPT !.warp_state = PortalClosing(0)]
        ELSE LET t == ease(progress)
             IN  [cam EXCEPT
                    !.warp_state = Approaching(progress),
                    !.eye = lerp(cam.warp_start_eye, cam.warp_target_eye, t)]

\* a PortalClosing arm that returns to None with the warping flag still set
update_PortalClosing_keeps_flag(cam) ==
  LET progress == F32Add(cam.warp_state.progress, StepPortal)
  IN  IF progress >= F32One
        THEN [cam EXCEPT !.portal_radius = F32Sub(F32One, progress),
                         !.warp_state = WarpNone]
        ELSE [cam EXCEPT !.portal_radius = F32Sub(F32One, progress),
                         !.warp_state = PortalClosing(progress)]

\* Camera::update_warp, the PortalClosing arm
update_PortalClosing(cam) ==
  LET progress == F32Add(cam.warp_state.progress, StepPortal)
  IN  IF progress >= F32One
        THEN [cam EXCEPT !.portal_radius = F32Sub(F32One, progress),
                         !.warp_state = WarpNone,
                         !.warping = FALSE]
        ELSE [cam EXCEPT !.portal_radius = F32Sub(F32One, progress),
                         !.warp_state = PortalClosing(progress)]

\* Camera::update_warp: the camera after the call
update_warp(cam) ==
  CASE cam.warp_state.tag = "None" -> [cam EXCEPT !.warping = FALSE]
    [] cam.warp_state.tag = "PortalOpening" -> update_PortalOpening(cam)
    [] cam.warp_state.tag = "Overview" -> update_Overview(cam)
    [] cam.warp_state.tag = "Approaching" -> update_Approaching(cam)
    [] cam.warp_state.tag = "PortalClosing" -> update_PortalClosing(cam)

\* Option<f32>: None is the empty sequence, Some(r) the sequence <<r>>
None == <<>>
Some(r) == <<r>>

\* an update_warp that returns Some(radius) from every arm but None's
update_warp_ret_always_Some(cam) ==
  IF cam.warp_state.tag = "None" THEN None
  ELSE Some(update_warp(cam).portal_radius)

\* Camera::update_warp: the value returned
update_warp_ret(cam) ==
  LET after == update_warp(cam)
  IN  CASE cam.warp_state.tag = "None" -> None
        [] cam.warp_state.tag = "PortalClosing" ->
             IF after.warp_state = WarpNone THEN None
                                            ELSE Some(after.portal_radius)
        [] OTHER -> Some(after.portal_radius)

\* a reset_position that restores eye and up but not center
reset_position_without_center(cam) ==
  [cam EXCEPT !.eye = cam.initial_eye, !.up = cam.initial_up]

\* Camera::reset_position
reset_position(cam) ==
  [cam EXCEPT !.eye = cam.initial_eye,
              !.center = cam.initial_center,
              !.up = cam.initial_up]

\* ------------------------------------------------------------------------
\* The scene of main(): the camera and the celestial bodies it is built with
\* ------------------------------------------------------------------------
InitialEye == Vec3(0, 25 * Q, 40 * Q)
InitialCenter == Vec3(0, 0, 0)
InitialUp == Vec3(0, T, 0)

\* position and scale of the bodies, in the order of celestial_bodies:
\* Sun, Mercury, Venus, Earth, Mars, Jupiter, Saturn, Moon
InitialBodies ==
  << Body(Vec3(0, 0, 0), 2 * Q),
     Body(Vec3(5 * Q, 0, 0), Q \div 2),
     Body(Vec3(-9 * Q, 0, 0), (6 * Q) \div 10),
     Body(Vec3(13 * Q, 0, 0), (6 * Q) \div 10),
     Body(Vec3(-17 * Q, 0, 0), Q \div 2),
     Body(Vec3(22 * Q, 0, 0), (15 * Q) \div 10),
     Body(Vec3(-28 * Q, 0, 0), 2 * Q),
     Body(Vec3((138 * Q) \div 10, 0, 0), (16 * Q) \div 100) >>

\* handle_input: rotation_speed = PI / 50.0, zoom_speed = 0.1,
\* movement_speed = 1.0
rotation_speed == PI \div 50
zoom_speed == Q \div 10
movement_speed == 1

\* ------------------------------------------------------------------------
\* Inputs of the camera operations
\* ------------------------------------------------------------------------
\* calls other than update_warp (orbit, zoom, move_center, reset_position,
\* check_if_changed, and the start_warp or bird_eye_view calls that start a
\* transition) a behaviour may contain
MaxOps == 2

\* (delta_yaw, delta_pitch): the four steps of handle_input, and a pitch
\* delta large enough to reach the pole clamp from anywhere
OrbitDeltas ==
  { <<rotation_speed, 0>>, <<-rotation_speed, 0>>,
    <<0, -rotation_speed>>, <<0, rotation_speed>>, <<0, PI>> }

\* zoom deltas: the two steps of handle_input, and deltas larger than the
\* whole zoom range in both directions
ZoomDeltas == { zoom_speed, -zoom_speed, 2 * max_zoom, -2 * max_zoom }

\* pan directions <<x, y>>: the two of handle_input, one with a pitch part,
\* and two long pans (1.0 and 1.25 rad) that bring the center next to and
\* beyond max_center_distance
PanDirections ==
  { <<-movement_speed, 0>>, <<movement_speed, 0>>, <<0, 1>>, <<20, 0>>, <<25, 0>> }

\* obstacle lists: none, the bodies of main(), and one body whose collision
\* radius (24) covers the closest zoom distances around the origin
ObstacleLists == { <<>>, InitialBodies, << Body(Vec3(0, 0, 0), 20 * Q) >> }

\* bodies a transition is started to: Earth
TargetBodies == {4}
WarpTargets == { InitialBodies[i].position : i \in TargetBodies }

\* ------------------------------------------------------------------------
\* The frame loop of main() and handle_input (main.rs)
\* ------------------------------------------------------------------------
\* orbital_speed (radians per unit of time, in T units) and orbital_radius of
\* the bodies, in the order of celestial_bodies (the Moon is moved separately)
orbital_speed == << 0, (2 * T) \div 100, (15 * T) \div 1000, T \div 100,
                    (8 * T) \div 1000, (4 * T) \div 1000, (3 * T) \div 1000, 0 >>
orbital_radius == << 0, 5 * Q, 9 * Q, 13 * Q, 17 * Q, 22 * Q, 28 * Q, 0 >>
MoonIndex == Len(InitialBodies)
EarthIndex == 4

\* the mutable part of a CelestialBody: position, visibility flag and trail
SceneBody(pos) == [position |-> pos, visible |-> TRUE, trail |-> <<>>]
InitialScene == [i \in 1..Len(InitialBodies) |-> SceneBody(InitialBodies[i].position)]

\* the obstacle list handle_input passes to the camera: every body, whatever
\* its visibility flag
Obstacles(scene) ==
  [i \in 1..Len(scene) |-> Body(scene[i].position, InitialBodies[i].scale)]

\* handle_input, the Moon's position for uniforms.time = utime
moon_position(earth_position, utime) ==
  LET orbit_speed == (2 * T) \div 100
      orbit_radius == (8 * Q) \div 10
  IN  Vec3(earth_position[1] + RDiv(orbit_radius * Cos(utime * orbit_speed), T),
           earth_position[2]
             + RDiv(((2 * Q) \div 10) * Sin(utime * (orbit_speed \div 2)), T),
           earth_position[3] + RDiv(orbit_radius * Sin(utime * orbit_speed), T))

\* handle_input, the update of one planet: orbital position, and a new
\* trail point on even times
planet_update(body, i, utime) ==
  LET angle == utime * orbital_speed[i]
      pos == Vec3(RDiv(orbital_radius[i] * Cos(angle), T),
                  body.position[2],
                  RDiv(orbital_radius[i] * Sin(angle), T))
  IN  [body EXCEPT !.position = pos,
                   !.trail = IF utime % 2 = 0 THEN Append(body.trail, pos)
                                              ELSE body.trail]

\* handle_input, the scene after the Moon and planet updates
scene_update(scene, utime) ==
  LET earth_position == scene[EarthIndex].position
  IN  [i \in 1..Len(scene) |->
         IF i = MoonIndex
           THEN [scene[i] EXCEPT !.position = moon_position(earth_position, utime)]
           ELSE planet_update(scene[i], i, utime)]

\* the keys of handle_input
ToggleKeys == << "Key1", "Key2", "Key3", "Key4", "Key5", "Key6", "Key7", "Key8" >>
WarpKeys == << "F1", "F2", "F3", "F4", "F5", "F6", "F7", "F8" >>

\* a camera call of handle_input: the method and its arguments
Call(op, a, b) == [op |-> op, a |-> a, b |-> b]

\* handle_input, the pan keys A and D: movement.x
movement_x(keys) ==
  (IF "D" \in keys THEN movement_speed ELSE 0)
    - (IF "A" \in keys THEN movement_speed ELSE 0)

\* handle_input, the camera calls it makes before update_warp, in program
\* order: an orbit per orbit key that is down (Left, Right, W, S), one
\* move_center if the movement is not zero, a zoom per zoom key (Up, Down),
\* then the F keys, the R key and the B key
input_calls(keys) ==
  LET rs == rotation_speed
      when(key, call) == IF key \in keys THEN <<call>> ELSE <<>>
  IN  when("Left", Call("orbit", rs, 0))
      \o when("Right", Call("orbit", -rs, 0))
      \o when("W", Call("orbit", 0, -rs))
      \o when("S", Call("orbit", 0, rs))
      \o (IF movement_x(keys) # 0
            THEN <<Call("move_center", movement_x(keys), 0)>> ELSE <<>>)
      \o when("Up", Call("zoom", zoom_speed, 0))
      \o when("Down", Call("zoom", -zoom_speed, 0))
      \o <<Call("warp_keys", 0, 0), Call("reset_key", 0, 0),
            Call("bird_key", 0, 0)>>

RECURSIVE warp_keys_from(_, _, _, _)
\* handle_input, the keys F(i)..F8, each starting a warp to its body
warp_keys_from(c, keys, scene, i) ==
  IF i > Len(WarpKeys) THEN c
  ELSE warp_keys_from(IF WarpKeys[i] \in keys
                        THEN start_warp(c, scene[i].position) ELSE c,
                      keys, scene, i + 1)

\* handle_input, the F keys, handled only if not already warping
warp_keys(c, keys, scene) ==
  IF ~c.warping THEN warp_keys_from(c, keys, scene, 1) ELSE c

\* an R key that resets the camera whatever the warp state
reset_key_ungated(c, keys) ==
  IF "R" \in keys THEN reset_position(c) ELSE c

\* handle_input, the R key
reset_key(c, keys) ==
  IF "R" \in keys /\ c.warp_state.tag = "None" THEN reset_position(c) ELSE c

\* handle_input, the B key
bird_key(c, keys) ==
  IF "B" \in keys /\ ~c.warping THEN bird_eye_view(c) ELSE c

\* the camera after one call of handle_input
apply_call(c, call, keys, scene) ==
  CASE call.op = "orbit" -> orbit(c, call.a, call.b, Obstacles(scene))
    [] call.op = "move_center" ->
         move_center(c, <<call.a, call.b>>, Obstacles(scene))
    [] call.op = "zoom" -> zoom(c, call.a, Obstacles(scene))
    [] call.op = "warp_keys" -> warp_keys(c, keys, scene)
    [] call.op = "reset_key" -> reset_key(c, keys)
    [] call.op = "bird_key" -> bird_key(c, keys)

RECURSIVE apply_calls(_, _, _, _, _)
\* the camera after the calls calls[i].. of handle_input, each applied to
\* the camera the one before it has left
apply_calls(c, calls, keys, scene, i) ==
  IF i > Len(calls) THEN c
  ELSE CHOOSE r \in { apply_calls(x, calls, keys, scene, i + 1) :
                        x \in { apply_call(c, calls[i], keys, scene) } } : TRUE

\* handle_input, the camera before its update_warp call
input_camera(c, keys, scene) ==
  apply_calls(c, input_calls(keys), keys, scene, 1)

\* handle_input, the visibility toggles Key1..Key8
toggle_keys(scene, keys) ==
  [i \in 1..Len(scene) |->
     IF ToggleKeys[i] \in keys
       THEN [scene[i] EXCEPT !.visible = ~scene[i].visible]
       ELSE scene[i]]

\* frames a behaviour of the frame loop may run
MaxFrames == 12
\* frames of a behaviour in which a key is down or pressed
MaxKeyFrames == 2

\* the keys held or pressed in one frame
KeyChoices ==
  { {}, {"Left"}, {"Right"}, {"W"}, {"S"}, {"A"}, {"D"}, {"Up"}, {"Down"},
    {"Key4"}, {"F1"}, {"F4"}, {"F7"}, {"R"}, {"B"},
    {"F1", "F4"}, {"F4", "B"}, {"R", "F1"}, {"S", "Up", "A"} }

\* ------------------------------------------------------------------------
\* The render pipeline: vertex_shader and planet_fragment_shader (shaders.rs)
\* and render (main.rs)
\* ------------------------------------------------------------------------
\* a 3x3 matrix is the tuple of its rows; entries and vector components of
\* this section are small integers, which f32 holds exactly
Identity3 == << <<1, 0, 0>>, <<0, 1, 0>>, <<0, 0, 1>> >>

transpose(m) == [i \in 1..3 |-> [j \in 1..3 |-> m[j][i]]]

determinant(m) ==
  m[1][1] * (m[2][2] * m[3][3] - m[2][3] * m[3][2])
    - m[1][2] * (m[2][1] * m[3][3] - m[2][3] * m[3][1])
    + m[1][3] * (m[2][1] * m[3][2] - m[2][2] * m[3][1])

\* the transposed cofactor matrix: m * adjugate(m) = determinant(m) * I
adjugate(m) ==
  LET minor(r1, r2, c1, c2) == m[r1][c1] * m[r2][c2] - m[r1][c2] * m[r2][c1]
  IN  << << minor(2, 3, 2, 3), -minor(1, 3, 2, 3), minor(1, 2, 2, 3) >>,
         << -minor(2, 3, 1, 3), minor(1, 3, 1, 3), -minor(1, 2, 1, 3) >>,
         << minor(2, 3, 1, 2), -minor(1, 3, 1, 2), minor(1, 2, 1, 2) >> >>

MatVec(m, v) == [i \in 1..3 |-> m[i][1] * v[1] + m[i][2] * v[2] + m[i][3] * v[3]]

MatMul(a, b) ==
  [i \in 1..3 |-> [j \in 1..3 |->
     a[i][1] * b[1][j] + a[i][2] * b[2][j] + a[i][3] * b[3][j]]]

\* a matrix or vector with the common denominator den: num / den
Ratio(num, den) == [num |-> num, den |-> den]

\* Matrix3::try_inverse: None if the determinant is zero
try_inverse(m) ==
  IF determinant(m) = 0 THEN None
  ELSE Some(Ratio(adjugate(m), determinant(m)))

\* Option::unwrap_or
unwrap_or(option, default) == IF option = None THEN default ELSE option[1]

\* a normal matrix that inverts the model matrix without transposing it
normal_matrix_no_transpose(model_mat3) ==
  unwrap_or(try_inverse(model_mat3), Ratio(Identity3, 1))

\* vertex_shader: model_mat3.transpose().try_inverse()
\*                  .unwrap_or(Mat3::identity())
normal_matrix(model_mat3) ==
  unwrap_or(try_inverse(transpose(model_mat3)), Ratio(Identity3, 1))

\* a Vertex as given to vertex_shader
Vertex(position, normal, tex_coords, color) ==
  [position |-> position, normal |-> normal,
   tex_coords |-> tex_coords, color |-> color]

\* the model matrix of the uniforms: its 3x3 linear part (mat4_to_mat3) and
\* its translation column
ModelMatrix(linear, translation) ==
  [linear |-> linear, translation |-> translation]

\* vertex_shader; the screen position, which only the rasterizer reads, is
\* left out
vertex_shader(vertex, model_matrix) ==
  LET world_position ==
        VAdd(MatVec(model_matrix.linear, vertex.position),
             model_matrix.translation)
      nm == normal_matrix(model_matrix.linear)
      transformed_normal == Ratio(MatVec(nm.num, vertex.normal), nm.den)
  IN  [position |-> vertex.position,
       normal |-> vertex.normal,
       tex_coords |-> vertex.tex_coords,
       color |-> vertex.color,
       transformed_normal |-> transformed_normal,
       world_position |-> world_position]

\* a planet_fragment_shader whose match has no arm for unknown names
planet_fragment_shader_no_default(planet_type) ==
  CASE planet_type = "Sun" -> "star_fragment_shader"
    [] planet_type = "Mercury" -> "mercury_shader"
    [] planet_type = "Venus" -> "venus_shader"
    [] planet_type = "Earth" -> "earth_shader"
    [] planet_type = "Mars" -> "mars_shader"
    [] planet_type = "Jupiter" -> "jupiter_shader"
    [] planet_type = "Saturn" -> "saturn_shader"
    [] planet_type = "Moon" -> "moon_shader"
    [] OTHER -> "panic"

\* planet_fragment_shader: the shader function that computes the color
planet_fragment_shader(planet_type) ==
  CASE planet_type = "Sun" -> "star_fragment_shader"
    [] planet_type = "Mercury" -> "mercury_shader"
    [] planet_type = "Venus" -> "venus_shader"
    [] planet_type = "Earth" -> "earth_shader"
    [] planet_type = "Mars" -> "mars_shader"
    [] planet_type = "Jupiter" -> "jupiter_shader"
    [] planet_type = "Saturn" -> "saturn_shader"
    [] planet_type = "Moon" -> "moon_shader"
    [] OTHER -> "default_shader"

\* the variants of ShaderType
ShaderTypes ==
  { "Star", "Mercury", "Venus", "Earth", "Mars", "Jupiter", "Saturn", "Moon",
    "RockyPlanet", "GasGiant", "Custom" }

\* render, the match on shader_type: the shader function that computes the
\* color
shaded_color(shader_type) ==
  CASE shader_type = "Star" -> "star_fragment_shader"
    [] shader_type = "Mercury" -> "mercury_shader"
    [] shader_type = "Venus" -> "venus_shader"
    [] shader_type = "Earth" -> "earth_shader"
    [] shader_type = "Mars" -> "mars_shader"
    [] shader_type = "Jupiter" -> "jupiter_shader"
    [] shader_type = "Saturn" -> "saturn_shader"
    [] shader_type = "Moon" -> "moon_shader"
    [] shader_type = "RockyPlanet" -> "rocky_planet_fragment_shader"
    [] shader_type = "GasGiant" -> "gas_giant_fragment_shader"
    [] shader_type = "Custom" -> "shader_fn"

\* the framebuffer of main(): 800 x 600
framebuffer_width == 800
framebuffer_height == 600

\* fragment coordinates are f32 values, in units of half a pixel
HalfPixels == 2

\* f32 as usize: truncation towards zero, saturating (a negative value
\* becomes 0)
as_usize(f) == IF f < 0 THEN 0 ELSE f \div HalfPixels

\* a Fragment: its position (x, y) and depth
Fragment(x, y, depth) == [position |-> <<x, y>>, depth |-> depth]

\* render, the body of the loop over the fragments: the framebuffer.point
\* calls made so far, followed by the one for this fragment if there is one
render_fragment(points, fragment, shader_type) ==
  LET x == as_usize(fragment.position[1])
      y == as_usize(fragment.position[2])
  IN  IF x < framebuffer_width /\ y < framebuffer_height
        THEN Append(points, [x |-> x, y |-> y, depth |-> fragment.depth,
                             color |-> shaded_color(shader_type),
                             fragment |-> fragment])
        ELSE points

\* model matrices: the identity, a uniform scale, a quarter turn about z
\* with a scale, a matrix that is neither symmetric nor orthogonal, the zero
\* scale, and a matrix of rank 2
ModelMatrices ==
  { ModelMatrix(Identity3, <<0, 0, 0>>),
    ModelMatrix(<< <<2, 0, 0>>, <<0, 2, 0>>, <<0, 0, 2>> >>, <<13, 0, 0>>),
    ModelMatrix(<< <<0, -2, 0>>, <<2, 0, 0>>, <<0, 0, 2>> >>, <<0, 0, 5>>),
    ModelMatrix(<< <<2, 1, 0>>, <<0, 1, 0>>, <<4, 0, 3>> >>, <<1, 2, 3>>),
    ModelMatrix(<< <<0, 0, 0>>, <<0, 0, 0>>, <<0, 0, 0>> >>, <<13, 0, 0>>),
    ModelMatrix(<< <<1, 2, 3>>, <<2, 4, 6>>, <<0, 0, 1>> >>, <<0, 0, 0>>) }

\* the vertices of one triangle; the normals span the space
TriangleVertices ==
  << Vertex(<<1, 0, 0>>, <<1, 0, 0>>, <<0, 0>>, "red"),
     Vertex(<<0, 1, 0>>, <<0, 1, 0>>, <<1, 0>>, "green"),
     Vertex(<<0, 0, 1>>, <<1, 2, 3>>, <<0, 1>>, "blue") >>

\* fragments a behaviour's rasterizer output may hold
MaxFragments == 2

\* fragment coordinates (half pixels): x = -5, -0.5, 0, 800 and y = -0.5, 0,
\* 600
FragmentXs == { -10, -1, 0, framebuffer_width * HalfPixels }
FragmentYs == { -1, 0, framebuffer_height * HalfPixels }
Fragments == { Fragment(x, y, 1) : x \in FragmentXs, y \in FragmentYs }

\* the outputs of the rasterizer (triangle): any list of up to MaxFragments
\* fragments
FragmentLists ==
  UNION { [1..n -> Fragments] : n \in 0..MaxFragments }

\* names given to planet_fragment_shader: the bodies, and names of no body
PlanetTypes ==
  { "Sun", "Mercury", "Venus", "Earth", "Mars", "Jupiter", "Saturn", "Moon",
    "Pluto", "earth", "" }

\* no render call is in progress
IdleRender == [pc |-> "idle"]

\* a render call at its entry: the uniforms' model matrix, the vertex array
\* and the shader type it is given; nothing is shaded or drawn yet
EnterRender(model_matrix, vertex_array, shader_type) ==
  [pc |-> "vertices", model_matrix |-> model_matrix,
   vertex_array |-> vertex_array, transformed_vertices |-> <<>>,
   shader_type |-> shader_type, fragments |-> <<>>, points |-> <<>>,
   planet_type |-> "", planet_color |-> ""]

\* ------------------------------------------------------------------------
\* State
\* ------------------------------------------------------------------------
\* cam: the Camera; ret: the value the last update_warp call returned;
\* opsLeft: the calls other than update_warp a behaviour of Spec may still make;
\* ticks: the update_warp calls made since the last transition was started;
\* quiet: no orbit, zoom, move_center, reset_position or check_if_changed call
\* was made since the last transition was started;
\* started: the call that started the last transition ("none" before the first);
\* pc, time, uniforms_time, scene: the frame loop's position, main's time,
\* uniforms.time and celestial_bodies; warp_calls: the update_warp calls made
\* in the current iteration of the loop; keyFramesLeft: the frames that may
\* still have keys
\* rend: a render call: its position in render (pc), the uniforms' model
\* matrix, the vertex array and shader type it is given, the vertices shaded
\* and the fragments still to draw, the framebuffer.point calls made, and the
\* last planet_fragment_shader call (its argument and its result)
\* twin: the camera of a second run of the frame loop, which is given the
\* same start of a transition as cam and its own navigation keys
VARIABLES cam, ret, opsLeft, ticks, quiet, started,
          pc, time, uniforms_time, scene, warp_calls, keyFramesLeft, rend,
          twin

camVars == <<cam, ret>>
histVars == <<opsLeft, ticks, quiet, started>>
frameVars == <<pc, time, uniforms_time, scene, warp_calls, keyFramesLeft, rend, twin>>
vars == <<cam, ret, opsLeft, ticks, quiet, started,
          pc, time, uniforms_time, scene, warp_calls, keyFramesLeft, rend, twin>>

Init ==
  /\ cam = new(InitialEye, InitialCenter, InitialUp)
  /\ ret = None
  /\ opsLeft = MaxOps
  /\ ticks = 0
  /\ quiet = TRUE
  /\ started = "none"
  /\ pc = "input"
  /\ time = 0
  /\ uniforms_time = 0
  /\ scene = InitialScene
  /\ warp_calls = 0
  /\ keyFramesLeft = MaxKeyFrames
  /\ rend = IdleRender
  /\ twin = new(InitialEye, InitialCenter, InitialUp)

\* ------------------------------------------------------------------------
\* Specification of the camera under arbitrary calls of its operations
\* ------------------------------------------------------------------------
Nav(c) ==
  /\ opsLeft > 0
  /\ cam' = c
  /\ opsLeft' = opsLeft - 1
  /\ quiet' = FALSE
  /\ UNCHANGED <<ret, ticks, started>>
  /\ UNCHANGED frameVars

Orbit == \E d \in OrbitDeltas, obs \in ObstacleLists : Nav(orbit(cam, d[1], d[2], obs))

Zoom == \E d \in ZoomDeltas, obs \in ObstacleLists : Nav(zoom(cam, d, obs))

MoveCenter == \E d \in PanDirections, obs \in ObstacleLists : Nav(move_center(cam, d, obs))

ResetPosition == Nav(reset_position(cam))

CheckIfChanged == Nav(check_if_changed(cam))

\* a start_warp or bird_eye_view call that leaves the camera as c: it starts a
\* transition if none is in progress, and is allowed at any time otherwise
Start(c, call) ==
  /\ cam.warp_state = WarpNone => opsLeft > 0
  /\ cam' = c
  /\ IF cam.warp_state = WarpNone
       THEN opsLeft' = opsLeft - 1 /\ ticks' = 0 /\ quiet' = TRUE
            /\ started' = call
       ELSE UNCHANGED <<opsLeft, ticks, quiet, started>>
  /\ UNCHANGED ret
  /\ UNCHANGED frameVars

StartWarp == \E target \in WarpTargets : Start(start_warp(cam, target), "start_warp")

BirdEyeView == Start(bird_eye_view(cam), "bird_eye_view")

UpdateWarp ==
  /\ cam' = update_warp(cam)
  /\ ret' = update_warp_ret(cam)
  /\ ticks' = IF cam.warp_state = WarpNone THEN ticks ELSE ticks + 1
  /\ UNCHANGED <<opsLeft, quiet, started>>
  /\ UNCHANGED frameVars

Next ==
  \/ Orbit
  \/ Zoom
  \/ MoveCenter
  \/ ResetPosition
  \/ CheckIfChanged
  \/ StartWarp
  \/ BirdEyeView
  \/ UpdateWarp

Spec == Init /\ [][Next]_vars

\* an update_warp call made while a transition is in progress: the only
\* step that counts a tick
WarpTick ==
  /\ cam.warp_state.tag # "None"
  /\ ticks' = ticks + 1

\* the same, with update_warp called again and again while a transition is
\* in progress: the frame loop calls it in every iteration (main.rs:678)
FairSpec == Spec /\ WF_ticks(WarpTick)

\* ------------------------------------------------------------------------
\* Specification of the navigation operations alone: the behaviours of Spec
\* in which no transition is started
\* ------------------------------------------------------------------------
\* orbit, zoom, move_center, reset_position and check_if_changed calls a
\* behaviour of NavSpec may contain
MaxNavOps == 3

NavInit ==
  /\ cam = new(InitialEye, InitialCenter, InitialUp)
  /\ ret = None
  /\ opsLeft = MaxNavOps
  /\ ticks = 0
  /\ quiet = TRUE
  /\ started = "none"
  /\ pc = "input"
  /\ time = 0
  /\ uniforms_time = 0
  /\ scene = InitialScene
  /\ warp_calls = 0
  /\ keyFramesLeft = MaxKeyFrames
  /\ rend = IdleRender
  /\ twin = new(InitialEye, InitialCenter, InitialUp)

NavNext ==
  \/ Orbit
  \/ Zoom
  \/ MoveCenter
  \/ ResetPosition
  \/ CheckIfChanged

NavSpec == NavInit /\ [][NavNext]_vars

\* ------------------------------------------------------------------------
\* Specification of a render call (and of planet_fragment_shader calls):
\* the vertices are shaded one by one, the rasterizer turns them into
\* fragments, and the fragments are drawn one by one
\* ------------------------------------------------------------------------
RenderInit ==
  /\ cam = new(InitialEye, InitialCenter, InitialUp)
  /\ ret = None
  /\ opsLeft = MaxOps
  /\ ticks = 0
  /\ quiet = TRUE
  /\ started = "none"
  /\ pc = "input"
  /\ time = 0
  /\ uniforms_time = 0
  /\ scene = InitialScene
  /\ warp_calls = 0
  /\ keyFramesLeft = MaxKeyFrames
  /\ \E m \in ModelMatrices, st \in ShaderTypes :
       rend = EnterRender(m, TriangleVertices, st)
  /\ twin = new(InitialEye, InitialCenter, InitialUp)

\* render, one iteration of the loop over vertex_array
VertexShader ==
  /\ rend.pc = "vertices"
  /\ Len(rend.transformed_vertices) < Len(rend.vertex_array)
  /\ rend' = [rend EXCEPT !.transformed_vertices =
                Append(@, vertex_shader(
                            rend.vertex_array[Len(rend.transformed_vertices) + 1],
                            rend.model_matrix))]
  /\ UNCHANGED <<cam, ret, opsLeft, ticks, quiet, started,
                 pc, time, uniforms_time, scene, warp_calls, keyFramesLeft,
                 twin>>

\* render, the loop over the triangles: the rasterizer returns the fragments
Triangle ==
  /\ rend.pc = "vertices"
  /\ Len(rend.transformed_vertices) = Len(rend.vertex_array)
  /\ \E fs \in FragmentLists :
       rend' = [rend EXCEPT !.pc = "fragments", !.fragments = fs]
  /\ UNCHANGED <<cam, ret, opsLeft, ticks, quiet, started,
                 pc, time, uniforms_time, scene, warp_calls, keyFramesLeft,
                 twin>>

\* render, one iteration of the loop over the fragments
RenderFragment ==
  /\ rend.pc = "fragments"
  /\ rend.fragments # <<>>
  /\ rend' = [rend EXCEPT
                !.points = render_fragment(@, Head(rend.fragments),
                                           rend.shader_type),
                !.fragments = Tail(@)]
  /\ UNCHANGED <<cam, ret, opsLeft, ticks, quiet, started,
                 pc, time, uniforms_time, scene, warp_calls, keyFramesLeft,
                 twin>>

\* render returns
RenderReturn ==
  /\ rend.pc = "fragments"
  /\ rend.fragments = <<>>
  /\ rend' = [rend EXCEPT !.pc = "done"]
  /\ UNCHANGED <<cam, ret, opsLeft, ticks, quiet, started,
                 pc, time, uniforms_time, scene, warp_calls, keyFramesLeft,
                 twin>>

\* a call of planet_fragment_shader
PlanetFragmentShader ==
  /\ rend.pc = "done"
  /\ \E planet_type \in PlanetTypes :
       rend' = [rend EXCEPT !.pc = "shaded",
                            !.planet_type = planet_type,
                            !.planet_color = planet_fragment_shader(planet_type)]
  /\ UNCHANGED <<cam, ret, opsLeft, ticks, quiet, started,
                 pc, time, uniforms_time, scene, warp_calls, keyFramesLeft,
                 twin>>

RenderNext ==
  \/ VertexShader
  \/ Triangle
  \/ RenderFragment
  \/ RenderReturn
  \/ PlanetFragmentShader

RenderSpec == RenderInit /\ [][RenderNext]_vars

\* ------------------------------------------------------------------------
\* Specification of the frame loop: main()'s while loop, one iteration being
\* FrameInput (time += 1; handle_input) followed by FrameRender (the
\* rendering, uniforms.time = time, the update_warp call that drives the
\* portal overlay, and the presentation of the frame)
\* ------------------------------------------------------------------------
FrameInput ==
  /\ pc = "input"
  /\ time < MaxFrames
  /\ \E keys \in KeyChoices :
       /\ keys # {} => keyFramesLeft > 0
       /\ keyFramesLeft' = IF keys # {} THEN keyFramesLeft - 1 ELSE keyFramesLeft
       /\ \E c \in {input_camera(cam, keys, scene)} :
            /\ cam' = update_warp(c)
            /\ ret' = update_warp_ret(c)
       /\ \E toggled \in {toggle_keys(scene, keys)} :
            scene' = scene_update(toggled, uniforms_time)
  /\ time' = time + 1
  /\ warp_calls' = 1
  /\ pc' = "render"
  /\ UNCHANGED <<uniforms_time, opsLeft, ticks, quiet, started, rend, twin>>

FrameRender ==
  /\ pc = "render"
  /\ uniforms_time' = time
  /\ cam' = update_warp(cam)
  /\ ret' = update_warp_ret(cam)
  /\ warp_calls' = warp_calls + 1
  /\ pc' = "input"
  /\ UNCHANGED <<time, scene, keyFramesLeft, opsLeft, ticks, quiet, started, rend, twin>>

\* the window is closed or Escape is down: the loop ends
Quit ==
  /\ pc = "input"
  /\ pc' = "done"
  /\ UNCHANGED <<cam, ret, opsLeft, ticks, quiet, started,
                 time, uniforms_time, scene, warp_calls, keyFramesLeft, rend, twin>>

FrameNext ==
  \/ FrameInput
  \/ FrameRender
  \/ Quit

FrameSpec == Init /\ [][FrameNext]_vars

\* ------------------------------------------------------------------------
\* Specification of a long run of the frame loop with no key down, in which
\* the trails grow
\* ------------------------------------------------------------------------
\* frames of a long run
MaxTrailFrames == 104

\* a frame's handle_input with no key down
IdleFrame ==
  /\ pc = "input"
  /\ time < MaxTrailFrames
  /\ \E c \in {input_camera(cam, {}, scene)} :
       /\ cam' = update_warp(c)
       /\ ret' = update_warp_ret(c)
  /\ scene' = scene_update(toggle_keys(scene, {}), uniforms_time)
  /\ time' = time + 1
  /\ warp_calls' = 1
  /\ pc' = "render"
  /\ UNCHANGED <<uniforms_time, keyFramesLeft, opsLeft, ticks, quiet, started, rend, twin>>

TrailNext ==
  \/ IdleFrame
  \/ FrameRender

TrailSpec == Init /\ [][TrailNext]_vars

\* ------------------------------------------------------------------------
\* Specification of two runs of the frame loop side by side: both start the
\* same transition from the same camera in their first frame, and each is
\* given its own navigation keys in the frames that follow
\* ------------------------------------------------------------------------
\* frames of a run: a transition takes 79 (158 update_warp calls, two a frame)
MaxTwinFrames == 80
\* frames of a pair of runs in which a navigation key is down in either run
MaxTwinKeyFrames == 1

\* the keys of the first frame: F4 (Earth) or F1 (the Sun)
TwinStartKeys == { {"F4"}, {"F1"} }
\* the keys of a later frame: none, an orbit key, a pan key
TwinNavKeys == { {}, {"Left"}, {"A"} }

TwinInit ==
  /\ cam = new(InitialEye, InitialCenter, InitialUp)
  /\ twin = new(InitialEye, InitialCenter, InitialUp)
  /\ ret = None
  /\ opsLeft = MaxOps
  /\ ticks = 0
  /\ quiet = TRUE
  /\ started = "none"
  /\ pc = "input"
  /\ time = 0
  /\ uniforms_time = 0
  /\ scene = InitialScene
  /\ warp_calls = 0
  /\ keyFramesLeft = MaxTwinKeyFrames
  /\ rend = IdleRender

\* handle_input of both runs, given the keys of each
TwinHandleInput(keys, twin_keys) ==
  /\ \E c \in {input_camera(cam, keys, scene)} :
       /\ cam' = update_warp(c)
       /\ ret' = update_warp_ret(c)
  /\ \E c \in {input_camera(twin, twin_keys, scene)} :
       twin' = update_warp(c)
  /\ \E toggled \in {toggle_keys(scene, keys)} :
       scene' = scene_update(toggled, uniforms_time)
  /\ time' = time + 1
  /\ warp_calls' = 1
  /\ pc' = "render"
  /\ UNCHANGED <<uniforms_time, opsLeft, ticks, quiet, started, rend>>

\* the first frame of both runs: the same F key is pressed in both
TwinStart ==
  /\ pc = "input"
  /\ time = 0
  /\ \E keys \in TwinStartKeys : TwinHandleInput(keys, keys)
  /\ UNCHANGED keyFramesLeft

\* a later frame of both runs, to the end of handle_input
TwinInput ==
  /\ pc = "input"
  /\ time > 0
  /\ time < MaxTwinFrames
  /\ \E keys \in TwinNavKeys, twin_keys \in TwinNavKeys :
       /\ (keys # {} \/ twin_keys # {}) => keyFramesLeft > 0
       /\ keyFramesLeft' = IF keys # {} \/ twin_keys # {}
                             THEN keyFramesLeft - 1 ELSE keyFramesLeft
       /\ TwinHandleInput(keys, twin_keys)

\* the rest of the frame of both runs
TwinRender ==
  /\ pc = "render"
  /\ uniforms_time' = time
  /\ cam' = update_warp(cam)
  /\ twin' = update_warp(twin)
  /\ ret' = update_warp_ret(cam)
  /\ warp_calls' = warp_calls + 1
  /\ pc' = "input"
  /\ UNCHANGED <<time, scene, keyFramesLeft, opsLeft, ticks, quiet, started, rend>>

TwinNext ==
  \/ TwinStart
  \/ TwinInput
  \/ TwinRender

TwinSpec == TwinInit /\ [][TwinNext]_vars

\* ------------------------------------------------------------------------
\* Specification of navigation among bodies that stay where they are: the
\* obstacle list of every orbit, zoom and move_center call is that of the
\* scene, which no step changes, and no transition is started
\* ------------------------------------------------------------------------
\* navigation calls of a behaviour
MaxClearOps == 3

\* the scene of main() with two bodies moved next to the camera: the Sun
\* (scale 2) to the eye of the closest zoom, and Uranus (scale 2) to the eye
\* one orbit step to the left
BlockingScene ==
  LET camera == new(InitialEye, InitialCenter, InitialUp)
  IN  [i \in 1..Len(InitialBodies) |->
         SceneBody(IF i = 1 THEN zoom_new_eye(camera, 2 * max_zoom)
                   ELSE IF i = 7 THEN orbit_new_eye(camera, rotation_speed, 0)
                   ELSE InitialBodies[i].position)]

ClearScenes == { InitialScene, BlockingScene }

ClearInit ==
  /\ cam = new(InitialEye, InitialCenter, InitialUp)
  /\ ret = None
  /\ opsLeft = MaxClearOps
  /\ ticks = 0
  /\ quiet = TRUE
  /\ started = "none"
  /\ pc = "input"
  /\ time = 0
  /\ uniforms_time = 0
  /\ scene \in ClearScenes
  /\ warp_calls = 0
  /\ keyFramesLeft = MaxKeyFrames
  /\ rend = IdleRender
  /\ twin = new(InitialEye, InitialCenter, InitialUp)

ClearOrbit ==
  \E d \in OrbitDeltas : Nav(orbit(cam, d[1], d[2], Obstacles(scene)))

ClearZoom == \E d \in ZoomDeltas : Nav(zoom(cam, d, Obstacles(scene)))

ClearMoveCenter ==
  \E d \in PanDirections : Nav(move_center(cam, d, Obstacles(scene)))

ClearNext ==
  \/ ClearOrbit
  \/ ClearZoom
  \/ ClearMoveCenter

ClearSpec == ClearInit /\ [][ClearNext]_vars


\* ------------------------------------------------------------------------
\* Properties
\* ------------------------------------------------------------------------
\* the rounding allowance of the fixed-point positions: 0.1 world units
Tol == Q \div 10

tag == cam.warp_state.tag
Busy == tag # "None"

\* the stage that follows a stage
NextStage(t) ==
  CASE t = "None" -> "PortalOpening"
    [] t = "PortalOpening" -> "Overview"
    [] t = "Overview" -> "Approaching"
    [] t = "Approaching" -> "PortalClosing"
    [] t = "PortalClosing" -> "None"

\* C1: whatever operation is called, a change of the warp stage goes to the
\* immediate successor in None -> PortalOpening -> Overview -> Approaching ->
\* PortalClosing -> None: no stage is skipped, re-entered or taken out of order.
C1_StageOrder ==
  [][cam'.warp_state.tag # cam.warp_state.tag
       => cam'.warp_state.tag = NextStage(cam.warp_state.tag)]_vars

\* a transition has run through every stage and is in its last one
C1_Witness == tag = "PortalClosing" /\ cam.warp_state.progress > 0

\* C2 as claimed: an update_warp call returns None if and only if the warp
\* state is None when it is called (every call made in another state returns
\* Some).
C2_Original ==
  [][UpdateWarp => ((ret' = None) <=> (cam.warp_state.tag = "None"))]_vars

\* C2 as amended: an update_warp call returns None if and only if the warp
\* state is None when it returns; a call that returns Some(r) returns the
\* portal radius the camera then holds. (The call that completes PortalClosing
\* is made during a transition and returns None.)
C2_ReturnsNoneIffIdleAfter ==
  [][UpdateWarp => /\ (ret' = None) <=> (cam'.warp_state.tag = "None")
                   /\ ret' # None => ret' = Some(cam'.portal_radius)]_vars

\* the call that completed a transition has returned None
C2_Witness == tag = "None" /\ started # "none" /\ ret = None /\ ticks > 0

\* C3: while a transition is in progress, start_warp (for every target) and
\* bird_eye_view leave every field of the camera as it is.
C3_StartWhileBusyIsNoOp ==
  Busy => /\ \A target \in WarpTargets : start_warp(cam, target) = cam
          /\ bird_eye_view(cam) = cam

\* a transition is under way, past its first stage
C3_Witness == tag = "Approaching" /\ cam.warp_state.progress > 0

\* C4: update_warp is called at most once in an iteration of the frame loop.
C4_OncePerFrame == warp_calls <= 1

\* C5: start_warp followed by fewer than 20 update_warp calls leaves the stage
\* PortalOpening; followed by exactly 20 it leaves Overview(0), a portal
\* radius of exactly 1.0, and eye and center as they were at the start_warp.
C5_OpeningTakes20Ticks ==
  (started = "start_warp" /\ quiet) =>
    /\ ticks < 20 => tag = "PortalOpening"
    /\ ticks = 20 => /\ cam.warp_state = Overview(0)
                     /\ cam.portal_radius = F32One
                     /\ cam.eye = cam.warp_start_eye
                     /\ cam.center = cam.warp_start_center

\* C6: the portal radius stays in [0, 1]; it is 0 on entry to PortalOpening
\* and does not decrease over a PortalOpening tick; it is exactly 1 after a
\* tick taken in Overview or Approaching; it does not increase over a
\* PortalClosing tick and is 0 when the state returns to None.
C6_PortalProfile ==
  [][/\ cam'.portal_radius >= 0 /\ cam'.portal_radius <= F32One
     /\ (tag = "None" /\ cam'.warp_state.tag = "PortalOpening")
          => cam'.portal_radius = 0
     /\ (UpdateWarp /\ tag = "PortalOpening")
          => cam'.portal_radius >= cam.portal_radius
     /\ (UpdateWarp /\ tag \in {"Overview", "Approaching"})
          => cam'.portal_radius = F32One
     /\ (UpdateWarp /\ tag = "PortalClosing")
          => cam'.portal_radius <= cam.portal_radius
     /\ (tag # "None" /\ cam'.warp_state.tag = "None")
          => cam'.portal_radius = 0]_vars

\* |eye - center| of a camera
zoom_distance(c) == magnitude(VSub(c.eye, c.center))
InZoomRange(d) == d >= min_zoom - Tol /\ d <= max_zoom + Tol

\* C7: in every reachable state |eye - center| lies in [min_zoom, max_zoom].
C7_ZoomDistanceInRange == InZoomRange(zoom_distance(cam))

\* C8: in every reachable state |center| <= max_center_distance.
C8_CenterWithinBound ==
  Norm2(cam.center) <= max_center_distance * max_center_distance

\* a transition moves a center that a pan had brought to more than 40 units
\* from the origin
C8_Witness ==
  /\ tag = "Overview"
  /\ cam.center # cam.warp_start_center
  /\ Norm2(cam.warp_start_center) > (40 * Q) * (40 * Q)

OffLine(p, a, dir) == magnitude(Cross(VSub(p, a), dir, T))

\* C10: for every delta and obstacle list, |eye - center| after zoom lies in
\* [min_zoom, max_zoom]; a committed zoom leaves the distance
\* clamp(old distance - delta, min_zoom, max_zoom), with the eye on the line
\* through the old eye and the center.
C10_ZoomPost ==
  \A delta \in ZoomDeltas, obs \in ObstacleLists :
    LET after == zoom(cam, delta, obs)
    IN  /\ InZoomRange(zoom_distance(after))
        /\ after.eye # cam.eye =>
             /\ Abs(zoom_distance(after)
                    - zoom_new_distance(zoom_distance(cam), delta)) <= Tol
             /\ OffLine(after.eye, cam.center,
                        normalize(VSub(cam.center, cam.eye))) <= Tol

\* orbit deltas: those of the operations, and deltas that make the yaw wrap
\* modulo 2*pi in both directions, with and without a pitch clamp
WrapDeltas ==
  OrbitDeltas \cup { <<TwoPI + rotation_speed, 0>>, <<-TwoPI, -PI>>,
                     <<PI + HalfPI, rotation_speed>> }

\* C11: for every orbit delta, orbit with an empty obstacle list leaves
\* |eye - center| as it was (to the rounding allowance) and leaves the center
\* unchanged, pitch clamps and yaw wraps included.
C11_OrbitKeepsRadius ==
  \A d \in WrapDeltas :
    LET after == orbit(cam, d[1], d[2], <<>>)
    IN  /\ Abs(zoom_distance(after) - zoom_distance(cam)) <= Tol
        /\ after.center = cam.center

\* an orbit has brought the eye to the pitch clamp under the center, from
\* where an orbit turns it further around the pole
C11_Witness ==
  /\ cam.eye = orbit_new_eye(new(InitialEye, InitialCenter, InitialUp), 0, PI)
  /\ cam.eye # InitialEye
  /\ orbit(cam, TwoPI + rotation_speed, 0, <<>>).eye # cam.eye

\* a candidate position is at less than 1.2 * scale from a body of the list
Near(position, bodies) ==
  \E i \in 1..Len(bodies) :
    Norm2(VSub(position, bodies[i].position))
      < min_distance(bodies[i]) * min_distance(bodies[i])

\* obstacle lists around a candidate position: those of the operations, a
\* body of scale 1 at the candidate, at 1.19 from it (inside the padding but
\* outside the body), at exactly 1.2 from it, and the last two behind a body
\* that is far away
ObstaclesAround(position) ==
  ObstacleLists \cup
    { << Body(position, Q) >>,
      << Body(VAdd(position, Vec3(119, 0, 0)), Q) >>,
      << Body(VAdd(position, Vec3(0, 0, 120)), Q) >>,
      << Body(VAdd(position, Vec3(0, 300 * Q, 0)), Q),
         Body(VAdd(position, Vec3(0, -119, 0)), Q) >>,
      << Body(VAdd(position, Vec3(0, 300 * Q, 0)), Q),
         Body(VAdd(position, Vec3(120, 0, 0)), Q) >> }

\* the outcome C12 states for a move to the candidate eye: a no-op if the
\* candidate is near a body, and else the eye at the candidate with the dirty
\* flag set and nothing else changed
RejectedOrCommitted(after, candidate, bodies) ==
  IF Near(candidate, bodies)
    THEN after = cam
    ELSE after = [cam EXCEPT !.eye = candidate, !.has_changed = TRUE]

\* C12: an orbit or zoom whose candidate eye is at less than 1.2 * scale from
\* a body of the obstacle list changes nothing (eye, center, up and the dirty
\* flag keep their values); one whose candidate is at 1.2 * scale or more
\* from every body is committed.
C12_CollisionRejects ==
  /\ \A d \in OrbitDeltas :
       LET candidate == orbit_new_eye(cam, d[1], d[2])
       IN  \A obs \in ObstaclesAround(candidate) :
             RejectedOrCommitted(orbit(cam, d[1], d[2], obs), candidate, obs)
  /\ \A d \in ZoomDeltas :
       LET candidate == zoom_new_eye(cam, d)
       IN  \A obs \in ObstaclesAround(candidate) :
             RejectedOrCommitted(zoom(cam, d, obs), candidate, obs)

\* the dirty flag is clear and the closest zoom collides with the large body
\* at the origin, while the bodies of the scene are not in the way
C12_Witness ==
  /\ ~cam.has_changed
  /\ Near(zoom_new_eye(cam, 2 * max_zoom), << Body(Vec3(0, 0, 0), 20 * Q) >>)
  /\ ~Near(zoom_new_eye(cam, 2 * max_zoom), InitialBodies)
  /\ cam.eye # InitialEye

\* C13: in every reachable state, reset_position leaves eye, center and up
\* equal to the three values passed to Camera::new, and leaves the warp
\* state, the warping flag and the portal radius as they are.
C13_ResetRestoresInitialPose ==
  LET after == reset_position(cam)
  IN  /\ after.eye = InitialEye
      /\ after.center = InitialCenter
      /\ after.up = InitialUp
      /\ after.warp_state = cam.warp_state
      /\ after.warping = cam.warping
      /\ after.portal_radius = cam.portal_radius

\* eye and center have both left their initial values, in the middle of a
\* transition
C13_Witness ==
  /\ cam.eye # InitialEye
  /\ cam.center # InitialCenter
  /\ tag = "Approaching"
  /\ ~quiet

\* C14: whenever an operation changes eye, center or up, the dirty flag is
\* set afterwards, so that the next check_if_changed call returns true.
C14_DirtyOnMutation ==
  [][(cam'.eye # cam.eye \/ cam'.center # cam.center \/ cam'.up # cam.up)
       => check_if_changed_ret(cam')]_vars

\* the new center of a move_center is within max_center_distance of the origin
InBound(new_center) ==
  /\ ~IsNaN(new_center)
  /\ Norm2(new_center) <= max_center_distance * max_center_distance

\* obstacle lists for a move_center: those around the eye, and a body at the
\* new center
ObstaclesForPan(eye, new_center) ==
  ObstaclesAround(eye)
    \cup (IF IsNaN(new_center) THEN {} ELSE { << Body(new_center, Q) >> })

\* C15: move_center commits the new center (and sets the dirty flag) if and
\* only if the new center is within max_center_distance of the origin and
\* the eye is collision-free; otherwise center and the dirty flag keep their
\* values. The eye is unchanged in both cases, and a commit leaves
\* |eye - center| as it was.
C15_MoveCenterCommit ==
  \A d \in PanDirections :
    LET new_center == move_center_new_center(cam, d)
    IN  \A obs \in ObstaclesForPan(cam.eye, new_center) :
          LET after == move_center(cam, d, obs)
          IN  /\ after.eye = cam.eye
              /\ IF InBound(new_center) /\ ~Near(cam.eye, obs)
                   THEN /\ after = [cam EXCEPT !.center = new_center,
                                               !.has_changed = TRUE]
                        /\ Abs(zoom_distance(after) - zoom_distance(cam)) <= Tol
                   ELSE after = cam

\* the center has been moved and the dirty flag cleared; from here one pan
\* stays within the bound and a longer one would leave it
C15_Witness ==
  /\ cam.center # InitialCenter
  /\ ~cam.has_changed
  /\ InBound(move_center_new_center(cam, <<movement_speed, 0>>))
  /\ ~InBound(move_center_new_center(cam, <<25, 0>>))

\* a fragment whose screen coordinates lie inside the framebuffer
InsideFramebuffer(fragment) ==
  /\ fragment.position[1] >= 0
  /\ fragment.position[2] >= 0
  /\ fragment.position[1] < framebuffer_width * HalfPixels
  /\ fragment.position[2] < framebuffer_height * HalfPixels

\* C16: render drops every fragment whose screen coordinates, taken before
\* the conversion to integers, lie outside the framebuffer (x < 0, y < 0,
\* x >= width or y >= height): framebuffer.point is called only for
\* fragments inside it.
C16_OutsideFragmentsDropped ==
  \A i \in 1..Len(rend.points) : InsideFramebuffer(rend.points[i].fragment)

\* the capacity a trail is created with
TrailCapacity == 50

\* C17: each body's trail is bounded: after any number of frames the number
\* of trail points stored for a body never exceeds the capacity of 50 the
\* trail is created with.
C17_TrailBounded ==
  \A i \in 1..Len(scene) : Len(scene[i].trail) <= TrailCapacity

\* the edge-triggered commands that may arrive in one frame: any set of
\* F1, F4, F8, R and B pressed together
CommandSets == SUBSET { "F1", "F4", "F8", "R", "B" }

\* the cameras in which exactly one transition has been started from x, or
\* none
AtMostOneStarted(x, bodies) ==
  { x, bird_eye_view(x) }
    \cup { start_warp(x, bodies[i].position) : i \in 1..Len(bodies) }

\* C18: in the frame loop the commands F1..F8, B and R are gated on no
\* transition being in progress: when the warp state is not None they leave
\* the camera as it is (no transition is started and reset_position is not
\* executed), and when it is None the commands of one frame start at most
\* one transition, from the camera as it is or as reset_position leaves it.
C18_CommandsGated ==
  \A keys \in CommandSets :
    LET after == input_camera(cam, keys, scene)
    IN  IF cam.warp_state.tag # "None"
          THEN after = cam
          ELSE \E x \in { cam, reset_position(cam) } :
                 after \in AtMostOneStarted(x, scene)

\* a frame begins during a transition, with the camera away from its
\* initial pose
C18_Witness ==
  /\ pc = "input"
  /\ cam.warp_state.tag # "None"
  /\ reset_position(cam) # cam

\* the fragment shaders of shaders.rs, and the function a Custom shader
\* type carries: each returns a Color
ColorFunctions ==
  { "star_fragment_shader", "mercury_shader", "venus_shader", "earth_shader",
    "mars_shader", "jupiter_shader", "saturn_shader", "moon_shader",
    "rocky_planet_fragment_shader", "gas_giant_fragment_shader",
    "default_shader", "shader_fn" }

\* the names planet_fragment_shader has a shader for
KnownPlanetTypes ==
  { "Sun", "Mercury", "Venus", "Earth", "Mars", "Jupiter", "Saturn", "Moon" }

\* C19: material dispatch is total: for every name given to
\* planet_fragment_shader, and for every shader type given to render, the
\* dispatch ends in a function that returns a color; a name that matches no
\* known body is shaded by default_shader.
C19_DispatchTotal ==
  /\ rend.pc = "shaded" =>
       /\ rend.planet_color \in ColorFunctions
       /\ rend.planet_type \notin KnownPlanetTypes =>
            rend.planet_color = "default_shader"
  /\ \A i \in 1..Len(rend.points) : rend.points[i].color \in ColorFunctions
  /\ \A planet_type \in PlanetTypes :
       planet_fragment_shader(planet_type) \in ColorFunctions
  /\ \A shader_type \in ShaderTypes :
       shaded_color(shader_type) \in ColorFunctions

\* planet_fragment_shader has been called with the name of no body, after a
\* render call that has drawn a fragment
C19_Witness ==
  /\ rend.pc = "shaded"
  /\ rend.planet_type \notin KnownPlanetTypes
  /\ rend.points # <<>>

\* k times the identity matrix
ScaledIdentity(k) == [i \in 1..3 |-> [j \in 1..3 |-> IF i = j THEN k ELSE 0]]

\* C20: vertex_shader never fails: when the transpose of the model matrix's
\* 3x3 linear part is singular the normal matrix is the identity and the
\* transformed normal equals the input normal; when it is invertible the
\* normal matrix is the inverse of the transpose. The vertex's position,
\* normal, texture coordinates and color are returned unchanged.
C20_VertexShaderTotal ==
  LET t == transpose(rend.model_matrix.linear)
      nm == normal_matrix(rend.model_matrix.linear)
  IN  /\ IF determinant(t) = 0
           THEN nm = Ratio(Identity3, 1)
           ELSE /\ nm.den # 0
                /\ MatMul(nm.num, t) = ScaledIdentity(nm.den)
                /\ MatMul(t, nm.num) = ScaledIdentity(nm.den)
      /\ \A i \in 1..Len(rend.transformed_vertices) :
           LET vertex == rend.vertex_array[i]
               out == rend.transformed_vertices[i]
           IN  /\ out.position = vertex.position
               /\ out.normal = vertex.normal
               /\ out.tex_coords = vertex.tex_coords
               /\ out.color = vertex.color
               /\ out.transformed_normal.den # 0
               /\ IF determinant(t) = 0
                    THEN out.transformed_normal = Ratio(vertex.normal, 1)
                    ELSE MatVec(t, out.transformed_normal.num)
                           = [k \in 1..3 |->
                                out.transformed_normal.den * vertex.normal[k]]

\* every vertex of the triangle has been shaded under a singular model
\* matrix that is not zero
C20_Witness ==
  /\ Len(rend.transformed_vertices) = 3
  /\ determinant(transpose(rend.model_matrix.linear)) = 0
  /\ rend.model_matrix.linear # ScaledIdentity(0)

\* a call made during a transition by an operation other than update_warp
\* leaves the warp state, its progress and the warping flag as they are
OnlyTicksAdvance ==
  [][(cam.warp_state.tag # "None" /\ ticks' = ticks)
       => (cam'.warp_state = cam.warp_state /\ cam'.warping = cam.warping)]_vars

\* C21: every started transition completes: from any warp state other than
\* None, if update_warp keeps being called, the state eventually returns to
\* None with the warping flag cleared, whatever other camera operations are
\* interleaved; no other operation stalls, restarts or cancels a transition.
C21_TransitionCompletes ==
  /\ (cam.warp_state.tag # "None")
       ~> (cam.warp_state.tag = "None" /\ ~cam.warping)
  /\ OnlyTicksAdvance

\* a transition has completed after another operation was called during it
C21_Witness ==
  /\ cam.warp_state.tag = "None"
  /\ ~cam.warping
  /\ started # "none"
  /\ ~quiet

\* the vantage point of bird_eye_view: its overview and its final waypoint
bird_eye_pos == Vec3(-40 * Q, 80 * Q, 40 * Q)

\* C22: in a transition started by bird_eye_view the Approaching stage
\* interpolates between equal points: the interpolation start captured at
\* the end of Overview is the final waypoint (-40, 80, 40), and an
\* update_warp call made in Approaching leaves the eye as it is.
C22_ApproachingIsNoOp ==
  (started = "bird_eye_view" /\ cam.warp_state.tag = "Approaching")
    => /\ cam.warp_start_eye = bird_eye_pos
       /\ cam.warp_target_eye = bird_eye_pos
       /\ update_warp(cam).eye = cam.eye

\* the fields of the camera that no update_warp call writes
KeepsUpAndInitial(before, after) ==
  /\ after.up = before.up
  /\ after.initial_eye = before.initial_eye
  /\ after.initial_center = before.initial_center
  /\ after.initial_up = before.initial_up

\* what the call that takes the camera from before to after may have written,
\* by the stage it was made in
StageOwns(before, after) ==
  /\ KeepsUpAndInitial(before, after)
  /\ before.warp_state.tag \in {"PortalOpening", "PortalClosing"}
       => (after.eye = before.eye /\ after.center = before.center)
  /\ before.warp_state.tag = "Approaching" => after.center = before.center
  /\ before.warp_state.tag = "None"
       => after = [before EXCEPT !.warping = after.warping]

\* C23: update_warp changes only what its stage owns: a call made in
\* PortalOpening or PortalClosing leaves eye, center and up unchanged; a call
\* made in Approaching leaves center and up unchanged; a call made in state
\* None changes nothing but the warping flag; no call changes up or the
\* initial (reset) values.
C23_TickChangesOnlyItsStage == StageOwns(cam, update_warp(cam))

\* an Approaching tick has moved the eye of a camera whose center is not at
\* the start of its interpolation
C23_Witness ==
  /\ cam.warp_state.tag = "Approaching"
  /\ cam.warp_state.progress > 0
  /\ cam.eye # cam.warp_start_eye
  /\ cam.center # cam.warp_start_center

\* the f32 literal an update_warp call adds to the progress of a stage
StageStep(t) ==
  CASE t = "PortalOpening" -> StepPortal
    [] t = "Overview" -> StepOverview
    [] t = "Approaching" -> StepApproach
    [] t = "PortalClosing" -> StepPortal

\* the call that takes the camera from before to after has left the stage
\* iff the progress it computed is 1.0 or more, and has entered the next
\* stage at progress 0; otherwise it has stored the progress it computed
LeftOnReachingOne(before, after, sum) ==
  IF sum >= F32One
    THEN /\ after.warp_state.tag = NextStage(before.warp_state.tag)
         /\ after.warp_state.tag # "None" => after.warp_state.progress = 0
    ELSE /\ after.warp_state.tag = before.warp_state.tag
         /\ after.warp_state.progress = sum

\* C24: whenever the warp state is not None, after every update_warp,
\* start_warp or bird_eye_view call, the progress it carries lies in [0, 1]
\* (the Approaching step 0.015 never leaves a stored progress above 1); a
\* stage is left by the first update_warp call whose progress reaches or
\* exceeds 1.0, and the next stage is entered at progress 0.
C24_ProgressInUnitInterval ==
  Busy =>
    /\ cam.warp_state.progress >= 0
    /\ cam.warp_state.progress <= F32One
    /\ LeftOnReachingOne(cam, update_warp(cam),
                         F32Add(cam.warp_state.progress, StageStep(tag)))

\* Approaching has been left by the call whose progress passed 1.0, and
\* PortalClosing entered at progress 0
C24_Witness ==
  /\ tag = "PortalClosing"
  /\ cam.warp_state.progress = 0
  /\ ticks > 0

\* C25: the warping flag and the warp state never disagree: after every
\* camera operation (new, start_warp, bird_eye_view, update_warp, orbit, zoom,
\* move_center, reset_position, check_if_changed) warping is true if and only
\* if the warp state is not None, so a gate on !warping is a gate on
\* warp_state == None.
C25_FlagMatchesState == cam.warping <=> cam.warp_state # WarpNone

\* a transition started by bird_eye_view has run to its end with no other
\* operation in between, and its last call has cleared the flag
C25_Witness ==
  /\ started = "bird_eye_view"
  /\ quiet
  /\ ticks > 0
  /\ cam.warp_state = WarpNone
  /\ ~cam.warping

RECURSIVE LastStored(_, _)
\* the last progress a stage stores: the last of the f32 sums p + step,
\* p + step + step, ... that is below 1.0 (p if there is none)
LastStored(p, step) ==
  IF F32Add(p, step) >= F32One THEN p
  ELSE LastStored(F32Add(p, step), step)

\* C26: when a transition started by start_warp(target) completes with no
\* other camera operation interleaved, the eye equals target + (8, 12, 8) and
\* the center equals target; likewise at the end of Overview the eye equals
\* target + (0, 25, 0). Equality is that of the interpolated points before
\* they are rounded to position units.
C26_WaypointsReached ==
  (started = "start_warp" /\ quiet) =>
    /\ (tag = "Approaching" /\ cam.warp_state.progress = 0) =>
         /\ cam.eye = VAdd(cam.warp_target_center, Vec3(0, 25 * Q, 0))
         /\ ease(LastStored(0, StepOverview)) = T
    /\ (tag = "None" /\ ticks > 0) =>
         /\ cam.center = cam.warp_target_center
         /\ cam.eye = VAdd(cam.warp_target_center, Vec3(8 * Q, 12 * Q, 8 * Q))
         /\ lerp_unrounded(cam.warp_start_eye, cam.warp_target_eye,
                           ease(LastStored(0, StepApproach)))
              = lerp_unrounded(cam.warp_start_eye, cam.warp_target_eye, T)

\* C27: the camera pose at the end of a transition is determined by the
\* pose at start_warp and the target alone: two runs of the frame loop that
\* start a transition from the same camera state with the same target have
\* equal eye and center when the warp state is back at None, whatever orbit,
\* zoom and pan keys each of them is given during the transition.
C27_EndPoseDetermined ==
  (time > 0 /\ pc = "input"
     /\ cam.warp_state = WarpNone /\ twin.warp_state = WarpNone)
    => (cam.eye = twin.eye /\ cam.center = twin.center)

\* the position is at 1.2 * scale or more from every body
Clear(position, bodies) ==
  /\ ~IsNaN(position)
  /\ \A i \in 1..Len(bodies) :
       Norm2(VSub(position, bodies[i].position))
         >= min_distance(bodies[i]) * min_distance(bodies[i])

\* C28: with a fixed obstacle list and no transition in progress, an eye that
\* is at 1.2 * scale or more from every obstacle stays so after any sequence
\* of orbit, zoom and move_center calls made with that obstacle list.
C28_EyeStaysClear == Clear(cam.eye, Obstacles(scene))

\* navigation has moved the eye, and the candidate of a further orbit or zoom
\* is nearer than 1.2 * scale to a body
C28_Witness ==
  /\ opsLeft < MaxClearOps
  /\ cam.eye # InitialEye
  /\ \/ \E d \in OrbitDeltas :
          check_collision(Obstacles(scene), orbit_new_eye(cam, d[1], d[2]))
     \/ \E d \in ZoomDeltas :
          check_collision(Obstacles(scene), zoom_new_eye(cam, d))

====
